---- MODULE Spec2Model ----
(***************************************************************************)
(* Model of the autoregressive rollout engine                              *)
(* (graphneuralpdesolver/autoregressive.py) and of the lead-time window    *)
(* extraction of the training step (graphneuralpdesolver/train.py).        *)
(*                                                                         *)
(* Arrays are modelled as row-major tensors [shape, data]; the trailing    *)
(* axes (grid nodes, channels) of a state are collapsed into one abstract  *)
(* value of Values, so a state batch u has shape <<batch, time>>.          *)
(***************************************************************************)
EXTENDS Integers, Sequences, FiniteSets, TLC

VARIABLES
  pc,                \* position of the modelled run
  variables,         \* parameters of the operator (flax VariableDict)
  num_steps_direct,  \* direct-step depth K (FLAGS.direct_steps)
  specs,             \* specs tensor [batch, spec_dim]
  u_inp,             \* input state [batch, 1] (u_inp / u_inp_lagged)
  num_jumps,         \* static scan length
  call_out,          \* result of AutoregressivePredictor.__call__
  jump_out,          \* result of AutoregressivePredictor.jump
  noisy,             \* results of get_noisy_input, in call order
  rejump,            \* result of jump applied to the first noisy input
  unroll_steps,      \* FLAGS.unroll_steps
  trajectory,        \* trajectory tensor of one batch [batch, time]
  u_lag_batch,       \* train_one_batch: inputs
  u_out_batch,       \* train_one_batch: targets
  specs_batch,       \* train_one_batch: specs
  dt_batch,          \* train_one_batch: time-delta labels
  step_out,          \* train_one_batch: what get_loss_and_grads computed
  run,               \* control state of train()
  stats              \* Dataset.stats['res'] and the inputs of compute_stats

predictorVars == <<call_out, jump_out, num_jumps>>
noisyVars == <<noisy, rejump>>
trainVars == <<unroll_steps, trajectory, u_lag_batch, u_out_batch, specs_batch, dt_batch>>
inputVars == <<variables, num_steps_direct, specs, u_inp>>

runVars == <<step_out, run, stats>>

vars == <<pc, inputVars, predictorVars, noisyVars, trainVars, runVars>>

----------------------------------------------------------------------------
(* Bounds of the model *)

NumValues == 3
MaxDirect == 3
MaxJumps == 3
MaxTimes == 10
MaxUnroll == 2
MaxBatch == 2
MaxSpecDim == 2
MaxSamples == 4
MaxRunTimes == 32
MaxRunUnroll == 16
MaxEpochs == 2
MaxStatTimes == 5
MaxSkip == 3

Values == 0 .. (NumValues - 1)
Batch == {1, 2}
None == [none |-> TRUE]

----------------------------------------------------------------------------
(* Row-major tensors *)

RECURSIVE Prod(_)
Prod(s) == IF s = <<>> THEN 1 ELSE Head(s) * Prod(Tail(s))

RECURSIVE Flatten(_)
Flatten(ss) == IF ss = <<>> THEN <<>> ELSE Head(ss) \o Flatten(Tail(ss))

Max(a, b) == IF a >= b THEN a ELSE b
Min(a, b) == IF a <= b THEN a ELSE b

Tensor(shape, data) == [shape |-> shape, data |-> data]

\* shape split around a 0-based axis: (outer, dim, inner)
Inner(shape, ax) == Prod(SubSeq(shape, ax + 2, Len(shape)))
Dim(shape, ax) == shape[ax + 1]
WithDim(shape, ax, d) == [shape EXCEPT ![ax + 1] = d]

At(t, ax, o, a, i) ==
  t.data[(o * Dim(t.shape, ax) + a) * Inner(t.shape, ax) + i + 1]

\* coordinates (outer, along the axis, inner) of the p-th element, p >= 1
OuterIx(shape, ax, p) == (p - 1) \div (Dim(shape, ax) * Inner(shape, ax))
AxisIx(shape, ax, p) == ((p - 1) \div Inner(shape, ax)) % Dim(shape, ax)
InnerIx(shape, ax, p) == (p - 1) % Inner(shape, ax)

\* t[..., start:stop, ...] on axis ax, 0 <= start <= stop <= dim
SliceAxis(t, ax, start, stop) ==
  LET shape == WithDim(t.shape, ax, stop - start)
  IN Tensor(shape, [p \in 1 .. Prod(shape) |->
       At(t, ax, OuterIx(shape, ax, p), AxisIx(shape, ax, p) + start,
          InnerIx(shape, ax, p))])

\* t[:, -1:] and t[:, :-1] on axis ax (python slice normalisation)
LastSlice(t, ax) ==
  SliceAxis(t, ax, Max(Dim(t.shape, ax) - 1, 0), Dim(t.shape, ax))
DropLastSlice(t, ax) ==
  SliceAxis(t, ax, 0, Max(Dim(t.shape, ax) - 1, 0))

Concatenate(t1, t2, ax) ==
  LET d1 == Dim(t1.shape, ax)
      shape == WithDim(t1.shape, ax, d1 + Dim(t2.shape, ax))
  IN Tensor(shape, [p \in 1 .. Prod(shape) |->
       LET o == OuterIx(shape, ax, p)
           a == AxisIx(shape, ax, p)
           i == InnerIx(shape, ax, p)
       IN IF a < d1 THEN At(t1, ax, o, a, i) ELSE At(t2, ax, o, a - d1, i)])

Repeat(t, repeats, ax) ==
  LET shape == WithDim(t.shape, ax, Dim(t.shape, ax) * repeats)
  IN Tensor(shape, [p \in 1 .. Prod(shape) |->
       At(t, ax, OuterIx(shape, ax, p), AxisIx(shape, ax, p) \div repeats,
          InnerIx(shape, ax, p))])

SwapAxes01(t) ==
  LET d0 == t.shape[1]
      d1 == t.shape[2]
      rest == Inner(t.shape, 1)
      shape == [t.shape EXCEPT ![1] = d1, ![2] = d0]
  IN Tensor(shape, [p \in 1 .. Prod(shape) |->
       LET j == (p - 1) \div (d0 * rest)
           i == ((p - 1) \div rest) % d0
           r == (p - 1) % rest
       IN t.data[(i * d1 + j) * rest + r + 1]])

Squeeze(t, ax) ==
  Tensor(SubSeq(t.shape, 1, ax) \o SubSeq(t.shape, ax + 2, Len(t.shape)), t.data)

Reshape(t, shape) == Tensor(shape, t.data)

\* stacking of equally shaped tensors along a new leading axis
Stack(ts, shape) ==
  Tensor(<<Len(ts)>> \o shape, Flatten([n \in 1 .. Len(ts) |-> ts[n].data]))

ExpandDims0(t) == Tensor(<<1>> \o t.shape, t.data)

----------------------------------------------------------------------------
(* The transition operator: apply(variables, specs, u_inp, ndt) -> u_out.  *)
(* A pure, row-wise function of its arguments; the family below is affine  *)
(* in the state, the time delta and the specs of the row.                  *)

SpecsRowSum(specs_, b) ==
  LET S == specs_.shape[2]
      RECURSIVE Sum(_)
      Sum(c) == IF c = 0 THEN 0 ELSE specs_.data[(b - 1) * S + c] + Sum(c - 1)
  IN Sum(S)

\* parameters <<a, b>>: a*u + b*ndt + specs of the row, on the values of
\* Values; parameters <<a, b, c>>: a*u + b*ndt + c*specs on the integers
\* (<<1, 1, 0>> advances a time index by exactly ndt steps)
Wrap(variables_, x) == IF Len(variables_) = 2 THEN x % NumValues ELSE x
SpecsWeight(variables_) == IF Len(variables_) = 2 THEN 1 ELSE variables_[3]

Apply(variables_, specs_, u, ndt) ==
  Tensor(u.shape, [b \in 1 .. Len(u.data) |->
    Wrap(variables_, variables_[1] * u.data[b] + variables_[2] * ndt
                       + SpecsWeight(variables_) * SpecsRowSum(specs_, b))])

\* one record of the log of operator invocations
Invocation(u, ndt) == [u |-> u, ndt |-> ndt]

----------------------------------------------------------------------------
(* AutoregressivePredictor.__call__ *)

\* mutant of TimeDeltas: one time delta too many
TimeDeltas_Extra(K) == [k \in 1 .. (K + 1) |-> k]

\* time_deltas = (1. + jnp.arange(num_steps_direct)).reshape(-1, 1)
TimeDeltas(K) == [k \in 1 .. K |-> k]

scan_fn_direct(variables_, specs_, u, ndt) ==
  [carry |-> u,
   y |-> Apply(variables_, specs_, u, ndt),
   calls |-> <<Invocation(u, ndt)>>]

\* jax.lax.scan(f=scan_fn_direct, init=u_inp, xs=time_deltas)
RECURSIVE ScanDirect(_, _, _, _, _)
ScanDirect(variables_, specs_, carry, xs, n) ==
  IF n > Len(xs)
  THEN [carry |-> carry, ys |-> <<>>, calls |-> <<>>]
  ELSE LET step == scan_fn_direct(variables_, specs_, carry, xs[n])
           rest == ScanDirect(variables_, specs_, step.carry, xs, n + 1)
       IN [carry |-> rest.carry,
           ys |-> <<step.y>> \o rest.ys,
           calls |-> step.calls \o rest.calls]

\* mutant of NextInput: the first direct-step output is fed back
NextInput_First(u_out) == SliceAxis(u_out, 1, 0, 1)

\* u_next = u_out[:, -1:]
NextInput(u_out) == LastSlice(u_out, 1)

scan_fn_autoregressive(variables_, specs_, K, u) ==
  LET inner == ScanDirect(variables_, specs_, u, TimeDeltas(K), 1)
      stacked == Stack(inner.ys, u.shape)
      u_out == SwapAxes01(Squeeze(stacked, 2))
  IN [carry |-> NextInput(u_out), y |-> u_out, calls |-> inner.calls]

\* jax.lax.scan(f=scan_fn_autoregressive, init=u_inp, xs=None, length=num_jumps)
RECURSIVE ScanAutoregressive(_, _, _, _, _)
ScanAutoregressive(variables_, specs_, K, carry, length) ==
  IF length = 0
  THEN [carry |-> carry, ys |-> <<>>, calls |-> <<>>]
  ELSE LET step == scan_fn_autoregressive(variables_, specs_, K, carry)
           rest == ScanAutoregressive(variables_, specs_, K, step.carry, length - 1)
       IN [carry |-> rest.carry,
           ys |-> <<step.y>> \o rest.ys,
           calls |-> step.calls \o rest.calls]

\* mutants of PrependInput: the last step is kept; the input is not prepended
PrependInput_KeepLast(u, rollout) == Concatenate(u, rollout, 1)
PrependInput_Skip(u, rollout) == rollout

\* rollout = jnp.concatenate([u_inp, rollout[:, :-1]], axis=1)
PrependInput(u, rollout) == Concatenate(u, DropLastSlice(rollout, 1), 1)

\* mutant of FlattenJumps: the jump axis and the batch axis are not swapped
FlattenJumps_NoSwap(stacked, batch_size, K, length) ==
  Reshape(stacked, <<batch_size, length * K>>)

\* rollout.swapaxes(0, 1).reshape(batch_size, num_jumps * num_steps_direct, ...)
FlattenJumps(stacked, batch_size, K, length) ==
  Reshape(SwapAxes01(stacked), <<batch_size, length * K>>)

Call(K, variables_, specs_, u, length) ==
  LET batch_size == u.shape[1]
      scan == ScanAutoregressive(variables_, specs_, K, u, length)
      stacked == Stack(scan.ys, <<batch_size, K>>)
      rollout == FlattenJumps(stacked, batch_size, K, length)
  IN [rollout |-> PrependInput(u, rollout),
      u_next |-> scan.carry,
      calls |-> scan.calls]

----------------------------------------------------------------------------
(* AutoregressivePredictor.jump *)

\* mutant of JumpNdt: a jump advances by one step instead of num_steps_direct
JumpNdt_One(K) == 1

\* ndt = jnp.array(self.num_steps_direct).reshape(1,)
JumpNdt(K) == K

scan_fn(variables_, specs_, u, ndt) ==
  [carry |-> Apply(variables_, specs_, u, ndt),
   calls |-> <<Invocation(u, ndt)>>]

\* jax.lax.scan(f=scan_fn, init=u_inp, xs=None, length=num_jumps)
RECURSIVE ScanJump(_, _, _, _, _)
ScanJump(variables_, specs_, ndt, carry, length) ==
  IF length = 0
  THEN [carry |-> carry, calls |-> <<>>]
  ELSE LET step == scan_fn(variables_, specs_, carry, ndt)
           rest == ScanJump(variables_, specs_, ndt, step.carry, length - 1)
       IN [carry |-> rest.carry, calls |-> step.calls \o rest.calls]

Jump(K, variables_, specs_, u, length) ==
  LET scan == ScanJump(variables_, specs_, JumpNdt(K), u, length)
  IN [u_next |-> scan.carry, calls |-> scan.calls]

----------------------------------------------------------------------------
(* Specification of the predictor: a predictor is constructed for an       *)
(* operator and a direct-step depth, and both entry points are run on      *)
(* the same inputs.                                                        *)

BatchSize == Cardinality(Batch)
StateBatches == {Tensor(<<BatchSize, 1>>, d) : d \in [1 .. BatchSize -> Values]}
SpecsBatches == {Tensor(<<BatchSize, 1>>, d) : d \in [1 .. BatchSize -> {0, 1}]}

InitPredictor ==
  /\ pc = "constructed"
  /\ variables \in Values \X Values
  /\ num_steps_direct \in 1 .. MaxDirect
  /\ specs \in SpecsBatches
  /\ u_inp \in StateBatches
  /\ num_jumps \in 0 .. MaxJumps
  /\ call_out = None
  /\ jump_out = None
  /\ noisy = <<>>
  /\ rejump = None
  /\ unroll_steps = 0
  /\ trajectory = None
  /\ u_lag_batch = None
  /\ u_out_batch = None
  /\ specs_batch = None
  /\ dt_batch = None
  /\ step_out = None
  /\ run = None
  /\ stats = None

DoCall ==
  /\ call_out = None
  /\ call_out' = Call(num_steps_direct, variables, specs, u_inp, num_jumps)
  /\ pc' = "called"
  /\ UNCHANGED <<inputVars, num_jumps, jump_out, noisyVars, trainVars, runVars>>

DoJump ==
  /\ jump_out = None
  /\ jump_out' = Jump(num_steps_direct, variables, specs, u_inp, num_jumps)
  /\ pc' = "jumped"
  /\ UNCHANGED <<inputVars, num_jumps, call_out, noisyVars, trainVars, runVars>>

NextPredictor == DoCall \/ DoJump

SpecPredictor == InitPredictor /\ [][NextPredictor]_vars

----------------------------------------------------------------------------
(* Properties of the predictor (checked under SpecPredictor) *)

Called == call_out # None
Jumped == jump_out # None

\* entry n (0-based) of a rollout along the time axis, as a [batch, 1] state
Entry(rollout, n) == SliceAxis(rollout, 1, n, n + 1)

\* C1: for num_jumps >= 1 and K >= 1 the history returned by __call__ has
\* exactly num_jumps * K entries along the time axis (for every batch row).
C1_HistoryLength ==
  (Called /\ num_jumps >= 1) =>
    /\ call_out.rollout.shape = <<u_inp.shape[1], num_jumps * num_steps_direct>>
    /\ Len(call_out.rollout.data) = u_inp.shape[1] * num_jumps * num_steps_direct

C1_Witness ==
  /\ Called
  /\ num_jumps = 2
  /\ num_steps_direct = 3
  /\ call_out.rollout.shape[2] = 6

\* C2: for num_jumps >= 1 the first time entry of the history returned by
\* __call__ is exactly the supplied u_inp, whatever the operator.
C2_FirstEntryIsInput ==
  (Called /\ num_jumps >= 1) => Entry(call_out.rollout, 0) = u_inp

\* the operator changes the input, and the history still starts with it
C2_Witness ==
  /\ Called
  /\ num_jumps >= 1
  /\ Apply(variables, specs, u_inp, 1) # u_inp
  /\ Entry(call_out.rollout, 0) = u_inp

\* C3: jump(u_inp, num_jumps) equals the u_final of __call__ run with the
\* same operator, parameters, specs, u_inp and num_jumps.
C3_JumpEqualsFinal ==
  (Called /\ Jumped) => jump_out.u_next = call_out.u_next

C3_Witness ==
  /\ Called
  /\ Jumped
  /\ num_jumps >= 2
  /\ num_steps_direct >= 2
  /\ jump_out.u_next # u_inp
  /\ jump_out.u_next = call_out.u_next

\* C6 as stated: entries [0, K) are the K direct-step outputs from the initial
\* input for time deltas 1..K, and every later block [j*K, (j+1)*K) holds the
\* direct-step outputs computed from the last entry of the block before it.
C6_BlocksAreDirectOutputs ==
  (Called /\ num_jumps >= 1) =>
    \A j \in 0 .. (num_jumps - 1) : \A k \in 1 .. num_steps_direct :
      Entry(call_out.rollout, j * num_steps_direct + k - 1) =
        Apply(variables, specs,
              IF j = 0 THEN u_inp
              ELSE Entry(call_out.rollout, j * num_steps_direct - 1),
              k)

\* C6 (amended): block j of the history starts with the input state s_j of
\* jump j (s_0 = u_inp, s_j = the delta-K output computed from s_(j-1)),
\* followed by the direct-step outputs computed from s_j for deltas 1..K-1;
\* the delta-K output of the last jump is returned as u_final only.
C6_BlocksAreInputThenOutputs ==
  (Called /\ num_jumps >= 1) =>
    LET K == num_steps_direct
        s(j) == Entry(call_out.rollout, j * K)
    IN /\ s(0) = u_inp
       /\ \A j \in 1 .. (num_jumps - 1) :
            s(j) = Apply(variables, specs, s(j - 1), K)
       /\ \A j \in 0 .. (num_jumps - 1) : \A k \in 1 .. (K - 1) :
            Entry(call_out.rollout, j * K + k) = Apply(variables, specs, s(j), k)
       /\ call_out.u_next = Apply(variables, specs, s(num_jumps - 1), K)

\* several jumps of several direct steps, on rows that differ, with an
\* operator whose outputs differ from its input
C6_Witness ==
  /\ Called
  /\ num_jumps >= 2
  /\ num_steps_direct >= 2
  /\ u_inp.data[1] # u_inp.data[2]
  /\ Entry(call_out.rollout, 1) # u_inp
  /\ Entry(call_out.rollout, num_steps_direct) # u_inp
  /\ Entry(call_out.rollout, num_steps_direct) =
       Apply(variables, specs, u_inp, num_steps_direct)


\* C15: the number of operator invocations is fixed by the static arguments:
\* __call__ invokes the operator exactly num_jumps * K times and jump exactly
\* num_jumps times, each time with the time delta K, whatever the states are.
C15_InvocationCounts ==
  /\ Called => Len(call_out.calls) = num_jumps * num_steps_direct
  /\ Jumped =>
       /\ Len(jump_out.calls) = num_jumps
       /\ \A n \in 1 .. Len(jump_out.calls) :
            jump_out.calls[n].ndt = num_steps_direct

C15_Witness ==
  /\ Called
  /\ Jumped
  /\ num_jumps = 3
  /\ num_steps_direct = 2
  /\ Len(call_out.calls) = 6
  /\ Len(jump_out.calls) = 3
  /\ jump_out.calls[3].ndt = 2
  /\ jump_out.u_next # u_inp

\* C16: in __call__ the K invocations of jump j all receive the same input
\* state s_(j-1), with the time deltas 1..K in this order; s_0 = u_inp and
\* the input of the next jump is exactly the delta-K output of the jump
\* before; the jumps are invoked in the order j = 1..num_jumps.
C16_DirectStepsShareInput ==
  Called =>
    LET K == num_steps_direct
        inp(j) == call_out.calls[j * K + 1].u
    IN /\ \A j \in 0 .. (num_jumps - 1) : \A k \in 1 .. K :
            /\ call_out.calls[j * K + k].ndt = k
            /\ call_out.calls[j * K + k].u = inp(j)
       /\ num_jumps >= 1 => inp(0) = u_inp
       /\ \A j \in 1 .. (num_jumps - 1) :
            inp(j) = Apply(variables, specs, inp(j - 1), K)

\* three jumps of several direct steps whose delta-1 and delta-K outputs differ
C16_Witness ==
  /\ Called
  /\ num_jumps = 3
  /\ num_steps_direct >= 2
  /\ Apply(variables, specs, u_inp, 1) # Apply(variables, specs, u_inp, num_steps_direct)
  /\ call_out.calls[num_steps_direct + 1].u = Apply(variables, specs, u_inp, num_steps_direct)
  /\ call_out.calls[2 * num_steps_direct + 1].u # call_out.calls[num_steps_direct + 1].u

----------------------------------------------------------------------------
(* train.get_noisy_input: the push-forward prefix *)

\* predictor_skip(variables, specs, u_inp, num_steps, num_steps_direct):
\* the end state after num_steps raw steps taken in jumps of
\* num_steps_direct, i.e. AutoregressivePredictor.jump for
\* num_steps / num_steps_direct jumps.
PredictorSkip(variables_, specs_, u, num_steps, K) ==
  Jump(K, variables_, specs_, u, num_steps \div K)

\* mutant of get_noisy_input: num_steps is not scaled by FLAGS.direct_steps
get_noisy_input_Unscaled(params, specs_, u_inp_lagged, num_steps_autoreg, direct_steps) ==
  PredictorSkip(params, specs_, u_inp_lagged, num_steps_autoreg, direct_steps)

\* mutant of get_noisy_input: at least one jump is always taken
get_noisy_input_AtLeastOne(params, specs_, u_inp_lagged, num_steps_autoreg, direct_steps) ==
  PredictorSkip(params, specs_, u_inp_lagged,
                Max(num_steps_autoreg, 1) * direct_steps, direct_steps)

get_noisy_input(params, specs_, u_inp_lagged, num_steps_autoreg, direct_steps) ==
  PredictorSkip(params, specs_, u_inp_lagged,
                num_steps_autoreg * direct_steps, direct_steps)

InitNoisy ==
  /\ pc = "constructed"
  /\ variables \in Values \X Values
  /\ num_steps_direct \in 1 .. MaxDirect
  /\ specs \in SpecsBatches
  /\ u_inp \in StateBatches
  /\ num_jumps = 0
  /\ call_out = None
  /\ jump_out = None
  /\ noisy = <<>>
  /\ rejump = None
  /\ unroll_steps = 0
  /\ trajectory = None
  /\ u_lag_batch = None
  /\ u_out_batch = None
  /\ specs_batch = None
  /\ dt_batch = None
  /\ step_out = None
  /\ run = None
  /\ stats = None

\* get_noisy_input(params, specs, u_lag, num_steps_autoreg=noise_steps)
GetNoisyInput(noise_steps) ==
  /\ Len(noisy) < 2
  /\ noisy' = Append(noisy,
       [steps |-> noise_steps,
        out |-> get_noisy_input(variables, specs, u_inp, noise_steps, num_steps_direct)])
  /\ pc' = "noisy"
  /\ UNCHANGED <<inputVars, predictorVars, rejump, trainVars, runVars>>

\* jump applied again, for `more` jumps, to the first noisy input
JumpAgain(more) ==
  /\ Len(noisy) >= 1
  /\ rejump = None
  /\ rejump' = [from |-> noisy[1].steps,
                more |-> more,
                out |-> Jump(num_steps_direct, variables, specs,
                             noisy[1].out.u_next, more)]
  /\ pc' = "rejumped"
  /\ UNCHANGED <<inputVars, predictorVars, noisy, trainVars, runVars>>

NextNoisy ==
  \/ \E noise_steps \in 0 .. MaxJumps : GetNoisyInput(noise_steps)
  \/ \E more \in 1 .. MaxJumps : JumpAgain(more)

SpecNoisy == InitNoisy /\ [][NextNoisy]_vars

\* C4: jumps compose: for noise_steps1 < noise_steps2 the noisy input for
\* noise_steps2 equals jump applied, for noise_steps2 - noise_steps1 further
\* jumps, to the noisy input for noise_steps1 (same u_lag).
C4_JumpsCompose ==
  (Len(noisy) = 2 /\ rejump # None
     /\ noisy[1].steps < noisy[2].steps
     /\ rejump.more = noisy[2].steps - noisy[1].steps) =>
    noisy[2].out.u_next = rejump.out.u_next

C4_Witness ==
  /\ Len(noisy) = 2
  /\ rejump # None
  /\ noisy[1].steps = 1
  /\ noisy[2].steps = 3
  /\ rejump.more = 2
  /\ num_steps_direct >= 2
  /\ noisy[1].out.u_next # u_inp
  /\ noisy[2].out.u_next # noisy[1].out.u_next
  /\ noisy[2].out.u_next = rejump.out.u_next

\* C5: with noise_steps = 0 the noisy-input computation invokes the operator
\* zero times and returns exactly the supplied u_lag.
C5_ZeroNoiseIsIdentity ==
  \A n \in 1 .. Len(noisy) :
    noisy[n].steps = 0 =>
      /\ noisy[n].out.u_next = u_inp
      /\ noisy[n].out.calls = <<>>

\* the operator would change the input, and zero noise steps leave it alone
C5_Witness ==
  /\ Len(noisy) >= 1
  /\ noisy[1].steps = 0
  /\ Apply(variables, specs, u_inp, num_steps_direct) # u_inp
  /\ noisy[1].out.u_next = u_inp
  /\ noisy[1].out.calls = <<>>

----------------------------------------------------------------------------
(* train / train_one_batch: lead times and window extraction *)

\* jnp.arange(start, stop) and 1 + jnp.arange(n)
Arange(start, stop) == [n \in 1 .. Max(stop - start, 0) |-> start + n - 1]

\* unroll_offset = FLAGS.unroll_steps * FLAGS.direct_steps
unroll_offset(unroll, K) == unroll * K

\* mutant of lead_times: the range includes num_times - direct_steps
lead_times_Inclusive(num_times, offset, K) == Arange(offset, num_times - K + 1)

\* lead_times = jnp.arange(unroll_offset, num_times - FLAGS.direct_steps)
lead_times(num_times, offset, K) == Arange(offset, num_times - K)

\* mutant of num_lead_times: counted for the inclusive range
num_lead_times_Inclusive(num_times, offset, K) == num_times - offset - K + 1

\* num_lead_times = num_times - unroll_offset - FLAGS.direct_steps
num_lead_times(num_times, offset, K) == num_times - offset - K

\* start index used by jax.lax.dynamic_slice: a negative index counts from
\* the end, and the slice is moved back inside the operand
ClampStart(start_index, slice_size, dim) ==
  LET start == IF start_index < 0 THEN start_index + dim ELSE start_index
  IN Max(0, Min(start, dim - slice_size))

DynamicSliceInDim(operand, start_index, slice_size, axis) ==
  LET start == ClampStart(start_index, slice_size, Dim(operand.shape, axis))
  IN SliceAxis(operand, axis, start, start + slice_size)

\* jax.vmap(f)(lead_times): the results stacked along a new leading axis
RECURSIVE Vmap2(_, _, _, _, _)
Vmap2(trajectory_, lts, start_shift, slice_size, n) ==
  IF n > Len(lts) THEN <<>>
  ELSE <<DynamicSliceInDim(trajectory_, lts[n] + start_shift, slice_size, 1)>>
       \o Vmap2(trajectory_, lts, start_shift, slice_size, n + 1)

u_lag_windows(trajectory_, lts, offset) ==
  Stack(Vmap2(trajectory_, lts, 0 - offset, 1, 1), <<trajectory_.shape[1], 1>>)

\* mutant of u_out_windows: the targets start at the lead time itself
u_out_windows_FromLead(trajectory_, lts, K) ==
  Stack(Vmap2(trajectory_, lts, 0, K, 1), <<trajectory_.shape[1], K>>)

u_out_windows(trajectory_, lts, K) ==
  Stack(Vmap2(trajectory_, lts, 1, K, 1), <<trajectory_.shape[1], K>>)

\* specs[None, :, :].repeat(repeats=num_lead_times, axis=0)
specs_windows(specs_, L) == Repeat(ExpandDims0(specs_), L, 0)

\* (1 + jnp.arange(direct_steps))[None, None, :].repeat(L, 0).repeat(batch_size, 1)
dt_windows(K, L, batch_size) ==
  Repeat(Repeat(Tensor(<<1, 1, K>>, Arange(1, K + 1)), L, 0), batch_size, 1)

\* x.reshape(n, -1): the last dimension is inferred
ReshapeInfer(t, n) == Reshape(t, <<n, Len(t.data) \div n>>)

\* x.repeat(repeats=direct_steps, axis=1).reshape(n * direct_steps, ...)
RepeatPerStep(t, K, n) == ReshapeInfer(Repeat(t, K, 1), n * K)

\* a tensor whose elements are their own row-major positions (0-based), so
\* that an element identifies the row and the column it was read from
\* the operator that advances a time index by exactly ndt raw steps
Advance == <<1, 1, 0>>

\* the keys shuffle_arrays is called with
ShuffleKeys == {0, 1}

Tagged(shape) == Tensor(shape, [p \in 1 .. Prod(shape) |-> p - 1])

\* FLAGS and shapes of train()
batch_size == trajectory.shape[1]
num_times == trajectory.shape[2]
Offset == unroll_offset(unroll_steps, num_steps_direct)
LeadTimes == lead_times(num_times, Offset, num_steps_direct)
NumLeadTimes == num_lead_times(num_times, Offset, num_steps_direct)

InitTrain ==
  /\ pc = "start"
  /\ variables = Advance
  /\ num_steps_direct \in 1 .. MaxDirect
  /\ unroll_steps \in 0 .. MaxUnroll
  /\ \E B \in 1 .. MaxBatch :
       /\ trajectory \in {Tagged(<<B, T>>) : T \in 1 .. MaxTimes}
       /\ specs \in {Tagged(<<B, S>>) : S \in 1 .. MaxSpecDim}
  /\ u_inp = None
  /\ num_jumps = 0
  /\ call_out = None
  /\ jump_out = None
  /\ noisy = <<>>
  /\ rejump = None
  /\ u_lag_batch = None
  /\ u_out_batch = None
  /\ specs_batch = None
  /\ dt_batch = None
  /\ step_out = None
  /\ run = None
  /\ stats = None

\* train_one_batch, lines 213-230: input output pairs for all lead times
ExtractWindows ==
  /\ pc = "start"
  /\ NumLeadTimes >= 1
  /\ u_lag_batch' = u_lag_windows(trajectory, LeadTimes, Offset)
  /\ u_out_batch' = u_out_windows(trajectory, LeadTimes, num_steps_direct)
  /\ specs_batch' = specs_windows(specs, NumLeadTimes)
  /\ dt_batch' = dt_windows(num_steps_direct, NumLeadTimes, batch_size)
  /\ pc' = "windows"
  /\ UNCHANGED <<inputVars, predictorVars, noisyVars, unroll_steps, trajectory, runVars>>

\* no lead time is permissible: the repeats and reshapes of an empty (or
\* negative) number of lead times raise
ExtractWindowsFails ==
  /\ pc = "start"
  /\ NumLeadTimes <= 0
  /\ pc' = "failed"
  /\ UNCHANGED <<inputVars, predictorVars, noisyVars, trainVars, runVars>>

\* train_one_batch, lines 232-240: lead times concatenated along the batch axis
FlattenLeadTimes ==
  /\ pc = "windows"
  /\ u_lag_batch' = Reshape(u_lag_batch, <<batch_size * NumLeadTimes, 1>>)
  /\ u_out_batch' = Reshape(u_out_batch, <<batch_size * NumLeadTimes, num_steps_direct>>)
  /\ specs_batch' = ReshapeInfer(specs_batch, batch_size * NumLeadTimes)
  /\ dt_batch' = Reshape(dt_batch, <<batch_size * NumLeadTimes, num_steps_direct>>)
  /\ pc' = "lead_times_flat"
  /\ UNCHANGED <<inputVars, predictorVars, noisyVars, unroll_steps, trajectory, runVars>>

\* train_one_batch, lines 241-249: the outputs concatenated along the batch axis
FlattenDirectSteps ==
  /\ pc = "lead_times_flat"
  /\ u_lag_batch' = RepeatPerStep(u_lag_batch, num_steps_direct, batch_size * NumLeadTimes)
  /\ u_out_batch' = Reshape(u_out_batch,
                            <<batch_size * NumLeadTimes * num_steps_direct, 1>>)
  /\ specs_batch' = RepeatPerStep(specs_batch, num_steps_direct, batch_size * NumLeadTimes)
  /\ dt_batch' = Reshape(dt_batch, <<batch_size * NumLeadTimes * num_steps_direct>>)
  /\ pc' = "flat"
  /\ UNCHANGED <<inputVars, predictorVars, noisyVars, unroll_steps, trajectory, runVars>>

\* shuffle_arrays(key, arrays): one permutation of the rows, drawn from the
\* key, applied to every array
Permutation(key, n) == [e \in 1 .. n |-> IF key = 0 THEN e ELSE n + 1 - e]

TakeRows(t, permutation) ==
  LET inner == Prod(Tail(t.shape))
  IN  Tensor(t.shape, [p \in 1 .. Len(t.data) |->
        t.data[(permutation[((p - 1) \div inner) + 1] - 1) * inner
               + ((p - 1) % inner) + 1]])

shuffle_arrays(key, arrays) ==
  [i \in 1 .. Len(arrays) |->
     TakeRows(arrays[i], Permutation(key, arrays[i].shape[1]))]

\* train_one_batch, lines 251-254: the examples are shuffled together
Shuffle ==
  /\ pc = "flat"
  /\ \E key \in ShuffleKeys :
       LET shuffled == shuffle_arrays(key,
                         <<specs_batch, u_lag_batch, u_out_batch, dt_batch>>)
       IN  /\ specs_batch' = shuffled[1]
           /\ u_lag_batch' = shuffled[2]
           /\ u_out_batch' = shuffled[3]
           /\ dt_batch' = shuffled[4]
  /\ pc' = "shuffled"
  /\ UNCHANGED <<inputVars, predictorVars, noisyVars, unroll_steps, trajectory, runVars>>

\* predictor_full(variables, specs, u_inp, num_steps, num_steps_direct): the
\* history of num_steps steps and the state after them
PredictorFull(variables_, specs_, u, num_steps, K) ==
  Call(K, variables_, specs_, u, num_steps \div K)

\* mutant of TakeColumns: the column before the one dt names
TakeColumns_ZeroBased(rollout_extended, dt) ==
  Tensor(<<rollout_extended.shape[1], 1>>,
    [e \in 1 .. rollout_extended.shape[1] |->
       rollout_extended.data[(e - 1) * rollout_extended.shape[2] + dt.data[e]]])

\* rollout_extended[np.arange(u_out.shape[0]), dt][:, None, :, :]
TakeColumns(rollout_extended, dt) ==
  Tensor(<<rollout_extended.shape[1], 1>>,
    [e \in 1 .. rollout_extended.shape[1] |->
       rollout_extended.data[(e - 1) * rollout_extended.shape[2] + dt.data[e] + 1]])

\* train.compute_loss, lines 143-168
compute_loss(params, specs_, u_inp_lagged, dt, u_out, num_steps_autoreg, direct_steps) ==
  LET skip == PredictorSkip(params, specs_, u_inp_lagged,
                            num_steps_autoreg * direct_steps, direct_steps)
      full == PredictorFull(params, specs_, skip.u_next, direct_steps, direct_steps)
      rollout_extended == Concatenate(full.rollout, full.u_next, 1)
  IN  [u_out_pred |-> TakeColumns(rollout_extended, dt),
       u_out |-> u_out,
       skip_calls |-> skip.calls,
       full_calls |-> full.calls]

\* np.random.choice(FLAGS.unroll_steps + 1)
NoiseChoices(unroll) == 0 .. unroll

\* mutant of grads_steps: the noise steps are not taken off
grads_steps_Full(unroll, noise_steps) == unroll

\* grads_steps = FLAGS.unroll_steps - noise_steps
grads_steps(unroll, noise_steps) == unroll - noise_steps

\* train.get_loss_and_grads, lines 190-196: the split of the unrolling is
\* drawn and the lagged input is advanced without gradients
GetNoisyInputOfStep ==
  /\ pc = "shuffled"
  /\ \E noise_steps \in NoiseChoices(unroll_steps) :
       LET noised == get_noisy_input(variables, specs_batch, u_lag_batch,
                                     noise_steps, num_steps_direct)
       IN  step_out' = [noise_steps |-> noise_steps,
                        grads_steps |-> grads_steps(unroll_steps, noise_steps),
                        noise_calls |-> noised.calls,
                        u_inp |-> noised.u_next]
  /\ pc' = "noised"
  /\ UNCHANGED <<inputVars, predictorVars, noisyVars, trainVars, run, stats>>

\* train.get_loss_and_grads, lines 197-203: the loss on the advanced input
\* and its gradients
ValueAndGrad ==
  /\ pc = "noised"
  /\ step_out' = [noise_steps |-> step_out.noise_steps,
                  grads_steps |-> step_out.grads_steps,
                  noise_calls |-> step_out.noise_calls,
                  u_inp |-> step_out.u_inp,
                  loss |-> compute_loss(variables, specs_batch, step_out.u_inp,
                                        dt_batch, u_out_batch, step_out.grads_steps,
                                        num_steps_direct)]
  /\ pc' = "stepped"
  /\ UNCHANGED <<inputVars, predictorVars, noisyVars, trainVars, run, stats>>

NextTrain ==
  \/ ExtractWindows
  \/ ExtractWindowsFails
  \/ FlattenLeadTimes
  \/ FlattenDirectSteps
  \/ Shuffle
  \/ GetNoisyInputOfStep
  \/ ValueAndGrad

SpecTrain == InitTrain /\ [][NextTrain]_vars

----------------------------------------------------------------------------
(* Properties of the window extraction (checked under SpecTrain) *)

\* the tag of the trajectory state of sample row b at time index t (0-based)
TrajAt(b, t) == trajectory.data[b * num_times + t + 1]
\* sample row of a trajectory tag
RowOf(tag) == tag \div num_times
\* position (0-based) of the example of lead time number l, row b, label k + 1
Example(l, b, k) == (l * batch_size + b) * num_steps_direct + k

\* C7: in the flattened batch every example (lead time t, sample row b, label
\* dt in 1..K) has as input the state of row b at time t - offset, as target
\* the state of the same row b at time t + dt, and dt as its label; no example
\* mixes the states of two sample rows.
C7_ExamplesAligned ==
  pc = "flat" =>
    /\ u_lag_batch.shape = <<batch_size * NumLeadTimes * num_steps_direct, 1>>
    /\ u_out_batch.shape = <<batch_size * NumLeadTimes * num_steps_direct, 1>>
    /\ dt_batch.shape = <<batch_size * NumLeadTimes * num_steps_direct>>
    /\ \A l \in 0 .. (NumLeadTimes - 1) : \A b \in 0 .. (batch_size - 1) :
         \A k \in 0 .. (num_steps_direct - 1) :
           LET e == Example(l, b, k) + 1
               t == LeadTimes[l + 1]
           IN /\ u_lag_batch.data[e] = TrajAt(b, t - Offset)
              /\ u_out_batch.data[e] = TrajAt(b, t + k + 1)
              /\ dt_batch.data[e] = k + 1
              /\ RowOf(u_lag_batch.data[e]) = RowOf(u_out_batch.data[e])

\* several rows, lead times, direct steps and a non-zero offset
C7_Witness ==
  /\ pc = "flat"
  /\ batch_size = 2
  /\ num_steps_direct = 2
  /\ unroll_steps = 1
  /\ NumLeadTimes = 3
  /\ u_lag_batch.data[Example(2, 1, 1) + 1] = TrajAt(1, LeadTimes[3] - Offset)
  /\ u_out_batch.data[Example(2, 1, 1) + 1] = TrajAt(1, LeadTimes[3] + 2)

\* C8: no lead time t has t - offset < 0 or t + K > num_times, and every time
\* index read for u_lag (t - offset) and for u_out (t+1 .. t+K) lies inside
\* [0, num_times): no slice is moved by the clamping of dynamic_slice, and
\* every state read is the one at the requested time index.
C8_WindowsInBounds ==
  /\ \A n \in 1 .. Len(LeadTimes) :
       LET t == LeadTimes[n]
       IN /\ t - Offset >= 0
          /\ t + num_steps_direct <= num_times
          /\ t + 1 >= 0
          /\ t + num_steps_direct < num_times
          /\ ClampStart(t - Offset, 1, num_times) = t - Offset
          /\ ClampStart(t + 1, num_steps_direct, num_times) = t + 1
  /\ pc = "windows" =>
       \A l \in 0 .. (NumLeadTimes - 1) : \A b \in 0 .. (batch_size - 1) :
         /\ u_lag_batch.data[l * batch_size + b + 1] =
              TrajAt(b, LeadTimes[l + 1] - Offset)
         /\ \A k \in 0 .. (num_steps_direct - 1) :
              u_out_batch.data[(l * batch_size + b) * num_steps_direct + k + 1] =
                TrajAt(b, LeadTimes[l + 1] + 1 + k)

\* the last lead time reads the last time index of the trajectory
C8_Witness ==
  /\ pc = "windows"
  /\ unroll_steps >= 1
  /\ num_steps_direct >= 2
  /\ NumLeadTimes >= 2
  /\ LeadTimes[1] - Offset = 0
  /\ LeadTimes[NumLeadTimes] + num_steps_direct = num_times - 1

LeadTimeSet == {LeadTimes[n] : n \in 1 .. Len(LeadTimes)}

\* every window holds K target steps and the labels 1..K
WindowsWellFormed ==
  /\ u_lag_batch.shape = <<Len(LeadTimes), batch_size, 1>>
  /\ u_out_batch.shape = <<Len(LeadTimes), batch_size, num_steps_direct>>
  /\ dt_batch.shape = <<NumLeadTimes, batch_size, num_steps_direct>>
  /\ \A l \in 0 .. (NumLeadTimes - 1) : \A b \in 0 .. (batch_size - 1) :
       \A k \in 0 .. (num_steps_direct - 1) :
         dt_batch.data[(l * batch_size + b) * num_steps_direct + k + 1] = k + 1

\* C9 as stated: windows are produced for exactly the lead times of the
\* inclusive range [offset, num_times - K], num_times - K - offset + 1 per
\* sample, each with K target steps and the labels 1..K.
C9_InclusiveRange ==
  pc = "windows" =>
    /\ LeadTimeSet = Offset .. (num_times - num_steps_direct)
    /\ Len(LeadTimes) = num_times - num_steps_direct - Offset + 1
    /\ WindowsWellFormed

\* C9 (amended): windows are produced for exactly the lead times of
\* [offset, num_times - K - 1], num_times - K - offset per sample (8 windows
\* for num_times = 10, K = 2, offset = 0), each with K target steps and the
\* labels 1..K.
C9_HalfOpenRange ==
  pc = "windows" =>
    /\ LeadTimeSet = Offset .. (num_times - num_steps_direct - 1)
    /\ Len(LeadTimes) = num_times - num_steps_direct - Offset
    /\ NumLeadTimes = Len(LeadTimes)
    /\ WindowsWellFormed

\* the scenario of the specification: num_times = 10, K = 2, offset = 0
C9_Witness ==
  /\ pc = "windows"
  /\ num_times = 10
  /\ num_steps_direct = 2
  /\ Offset = 0
  /\ LeadTimeSet = 0 .. 7
  /\ u_out_batch.shape = <<8, batch_size, 2>>

\* C10: the specs row attached to each flattened example (lead time t, sample
\* row b, label dt) is the specs vector of sample row b, components in order.
C10_SpecsStayPaired ==
  pc = "flat" =>
    LET S == specs.shape[2]
    IN /\ specs_batch.shape = <<batch_size * NumLeadTimes * num_steps_direct, S>>
       /\ \A l \in 0 .. (NumLeadTimes - 1) : \A b \in 0 .. (batch_size - 1) :
            \A k \in 0 .. (num_steps_direct - 1) : \A c \in 0 .. (S - 1) :
              specs_batch.data[Example(l, b, k) * S + c + 1] =
                specs.data[b * S + c + 1]

(***************************************************************************)
(* The training step                                                       *)
(***************************************************************************)

Stepped == pc = "stepped"

\* C11: in every training step noise_steps is one of 0 .. unroll_steps,
\* grad_steps is unroll_steps - noise_steps and is not negative, and the jumps
\* taken without gradient (by get_noisy_input) plus the jumps taken with
\* gradient (by the jump predictor inside compute_loss) are unroll_steps.
C11_JumpsSplitUnroll ==
  Stepped =>
    /\ step_out.noise_steps \in 0 .. unroll_steps
    /\ step_out.grads_steps = unroll_steps - step_out.noise_steps
    /\ step_out.grads_steps >= 0
    /\ Len(step_out.noise_calls) = step_out.noise_steps
    /\ Len(step_out.loss.skip_calls) = step_out.grads_steps
    /\ Len(step_out.noise_calls) + Len(step_out.loss.skip_calls) = unroll_steps
    /\ \A n \in 1 .. Len(step_out.noise_calls) :
         step_out.noise_calls[n].ndt = num_steps_direct
    /\ \A n \in 1 .. Len(step_out.loss.skip_calls) :
         step_out.loss.skip_calls[n].ndt = num_steps_direct

C11_Witness ==
  /\ Stepped
  /\ unroll_steps = 2
  /\ step_out.noise_steps = 1
  /\ Len(step_out.noise_calls) = 1
  /\ Len(step_out.loss.skip_calls) = 1

\* C17: with an operator that advances a state by exactly the requested
\* number of raw steps, the prediction compared against the target of an
\* example is the state of the example's trajectory at raw time t + dt: the
\* lagged input at t - offset advanced by offset and then by dt.
C17_PredictionAtTarget ==
  Stepped =>
    \A e \in 1 .. Len(step_out.loss.u_out_pred.data) :
      /\ step_out.loss.u_out_pred.data[e] = u_lag_batch.data[e] + Offset + dt_batch.data[e]
      /\ step_out.loss.u_out_pred.data[e] = step_out.loss.u_out.data[e]
      /\ step_out.loss.u_out.data[e] = u_out_batch.data[e]
      /\ RowOf(step_out.loss.u_out_pred.data[e]) = RowOf(u_lag_batch.data[e])
      /\ step_out.loss.full_calls[dt_batch.data[e]].ndt = dt_batch.data[e]

C17_Witness ==
  /\ Stepped
  /\ unroll_steps = 2
  /\ num_steps_direct = 2
  /\ step_out.noise_steps = 1
  /\ Len(step_out.loss.u_out_pred.data) >= 4
  /\ \E e \in 1 .. Len(step_out.loss.u_out_pred.data) :
       /\ dt_batch.data[e] = 2
       /\ u_lag_batch.data[e] = 1
       /\ step_out.loss.u_out_pred.data[e] = 1 + 4 + 2
       /\ step_out.loss.u_out.data[e] = 7

-----------------------------------------------------------------------------
(***************************************************************************)
(* train: the run from the checks of the constants to the last epoch       *)
(***************************************************************************)

\* mutant of Divisible: one full batch is enough
Divisible_AtLeastOne(num_samples_trn, size) == num_samples_trn \div size >= 1

\* assert num_samples_trn % batch_size == 0
Divisible(num_samples_trn, size) == num_samples_trn % size = 0

\* num_batches = num_samples_trn // batch_size
num_batches(num_samples_trn, size) == num_samples_trn \div size

eval_parts == {1, 4, 8, 16}

\* assert all([(num_times / p) >= FLAGS.direct_steps for p in eval_parts])
EvalPartsLongEnough(times, K) == \A p \in eval_parts : times >= p * K

\* evaluate: np.split(np.arange(num_times), p) needs an equal division
EvalPartsSplit(times) == \A p \in eval_parts : times % p = 0

RunLeadTimes == num_lead_times(run.num_times, Offset, num_steps_direct)

RunBatches == num_batches(run.num_samples_trn, run.batch_size)

\* the abstract signature of the arguments of the jitted train_one_batch: the
\* shapes are those of every batch; whether the freshly created train state
\* and an updated one are told apart depends on the build
Signature ==
  IF run.weak_types_stable \/ run.updates = 0 THEN "created" ELSE "updated"

Traced == Signature \in DOMAIN run.jit_cache

\* the compiled computation kept for a signature: the Python value of
\* noise_steps at the time of tracing is a constant of it
Compiled(noise_steps) ==
  [sig \in DOMAIN run.jit_cache \cup {Signature} |->
     IF sig = Signature THEN noise_steps ELSE run.jit_cache[sig]]

\* train_one_epoch, lines 287-295: the log line of a verbose run
AfterBatch(r) ==
  IF r.verbose /\ RunBatches \div 5 = 0
    THEN [r EXCEPT !.error = "ZeroDivisionError"]
    ELSE [r EXCEPT !.idx = r.idx + 1]

Failed(r) == IF r.error = "" THEN "batches" ELSE "failed"

InitRun ==
  /\ pc = "train"
  /\ variables = <<0, 0>>
  /\ num_steps_direct \in 1 .. MaxDirect
  /\ unroll_steps \in 0 .. MaxRunUnroll
  /\ specs = None
  /\ u_inp = None
  /\ num_jumps = 0
  /\ call_out = None
  /\ jump_out = None
  /\ noisy = <<>>
  /\ rejump = None
  /\ trajectory = None
  /\ u_lag_batch = None
  /\ u_out_batch = None
  /\ specs_batch = None
  /\ dt_batch = None
  /\ step_out = None
  /\ stats = None
  /\ \E n \in 1 .. MaxSamples, size \in 1 .. MaxBatch, times \in 1 .. MaxRunTimes,
        epochs \in 1 .. MaxEpochs, verbose \in BOOLEAN, stable \in BOOLEAN :
       run = [num_samples_trn |-> n,
              batch_size |-> size,
              num_times |-> times,
              epochs |-> epochs,
              verbose |-> verbose,
              weak_types_stable |-> stable,
              initialised |-> FALSE,
              evaluations |-> 0,
              epoch |-> 0,
              splits |-> 0,
              idx |-> 0,
              jit_cache |-> <<>>,
              calls |-> 0,
              draws |-> <<>>,
              used |-> <<>>,
              updates |-> 0,
              error |-> ""]

\* train, lines 90-96
AssertDivisible ==
  /\ pc = "train"
  /\ IF Divisible(run.num_samples_trn, run.batch_size)
       THEN /\ pc' = "checked"
            /\ run' = run
       ELSE /\ pc' = "failed"
            /\ run' = [run EXCEPT !.error = "AssertionError"]
  /\ UNCHANGED <<inputVars, predictorVars, noisyVars, trainVars, step_out, stats>>

\* train, lines 98-141: normalisation, the model variables, the lead times,
\* the optimiser and the predictors
InitModel ==
  /\ pc = "checked"
  /\ run' = [run EXCEPT !.initialised = TRUE]
  /\ pc' = "initialised"
  /\ UNCHANGED <<inputVars, predictorVars, noisyVars, trainVars, step_out, stats>>

\* train, lines 367-397: the evaluation before training
EvaluateBeforeTraining ==
  /\ pc = "initialised"
  /\ IF ~ EvalPartsLongEnough(run.num_times, num_steps_direct)
       THEN /\ run' = [run EXCEPT !.error = "AssertionError"]
            /\ pc' = "failed"
       ELSE IF ~ EvalPartsSplit(run.num_times)
         THEN /\ run' = [run EXCEPT !.error = "ValueError"]
              /\ pc' = "failed"
         ELSE /\ run' = [run EXCEPT !.evaluations = 2, !.epoch = 1]
              /\ pc' = "epoch"
  /\ UNCHANGED <<inputVars, predictorVars, noisyVars, trainVars, step_out, stats>>

\* train_one_epoch, lines 271-281: the samples are shuffled and split
SplitToBatches ==
  /\ pc = "epoch"
  /\ run' = [run EXCEPT !.splits = run.splits + 1, !.idx = 0]
  /\ pc' = "batches"
  /\ UNCHANGED <<inputVars, predictorVars, noisyVars, trainVars, step_out, stats>>

\* train_one_batch called with arguments of a signature not seen before: the
\* Python body runs once, as the trace; without a permissible lead time the
\* reshapes of lines 232-240 raise before the draw
TrainOneBatchTraced ==
  /\ pc = "batches"
  /\ run.idx < RunBatches
  /\ ~ Traced
  /\ IF RunLeadTimes <= 0
       THEN /\ run' = [run EXCEPT !.calls = run.calls + 1, !.error = "TypeError"]
            /\ pc' = "failed"
       ELSE \E noise_steps \in NoiseChoices(unroll_steps) :
              /\ run' = AfterBatch(
                   [run EXCEPT !.calls = run.calls + 1,
                               !.draws = Append(run.draws, noise_steps),
                               !.jit_cache = Compiled(noise_steps),
                               !.used = Append(run.used, noise_steps),
                               !.updates = run.updates + 1])
              /\ pc' = Failed(run')
  /\ UNCHANGED <<inputVars, predictorVars, noisyVars, trainVars, step_out, stats>>

\* train_one_batch called with arguments of a known signature: the compiled
\* computation runs, the Python body does not
TrainOneBatchCompiled ==
  /\ pc = "batches"
  /\ run.idx < RunBatches
  /\ Traced
  /\ run' = AfterBatch(
       [run EXCEPT !.calls = run.calls + 1,
                   !.used = Append(run.used, run.jit_cache[Signature]),
                   !.updates = run.updates + 1])
  /\ pc' = Failed(run')
  /\ UNCHANGED <<inputVars, predictorVars, noisyVars, trainVars, step_out, stats>>

\* train, lines 399-446: the evaluation and the checkpoint after an epoch
EndEpoch ==
  /\ pc = "batches"
  /\ run.idx = RunBatches
  /\ IF run.epoch < run.epochs
       THEN /\ run' = [run EXCEPT !.evaluations = run.evaluations + 2,
                                   !.epoch = run.epoch + 1]
            /\ pc' = "epoch"
       ELSE /\ run' = [run EXCEPT !.evaluations = run.evaluations + 2]
            /\ pc' = "done"
  /\ UNCHANGED <<inputVars, predictorVars, noisyVars, trainVars, step_out, stats>>

NextRun ==
  \/ AssertDivisible
  \/ InitModel
  \/ EvaluateBeforeTraining
  \/ SplitToBatches
  \/ TrainOneBatchTraced
  \/ TrainOneBatchCompiled
  \/ EndEpoch

SpecRun == InitRun /\ [][NextRun]_vars

NoLeadTime == RunLeadTimes <= 0

NothingDone ==
  /\ ~ run.initialised
  /\ run.evaluations = 0
  /\ run.splits = 0
  /\ run.calls = 0
  /\ run.updates = 0

\* C12: every call of train_one_batch over the run performs its own fresh
\* draw of noise_steps: there are as many draws as executed training steps,
\* and the depth a step uses is the one drawn for it.
C12_FreshDrawPerStep ==
  /\ Len(run.draws) = run.updates
  /\ run.used = run.draws

\* C13: when no lead time is permissible, train fails at once: nothing is
\* initialised or evaluated, no batch is formed, no training step and no
\* update of the parameters takes place.
C13_NoLeadTimeFailsAtOnce ==
  NoLeadTime =>
    /\ pc \in {"train", "failed"}
    /\ NothingDone

\* C14: when the number of training samples is not a multiple of the batch
\* size, train fails at its first check (an AssertionError): before the model
\* is initialised, before any batch is formed and before any update.
C14_IndivisibleFailsAtOnce ==
  run.num_samples_trn % run.batch_size # 0 =>
    /\ pc \in {"train", "failed"}
    /\ pc = "failed" => run.error = "AssertionError"
    /\ NothingDone

C14_Witness ==
  /\ pc = "failed"
  /\ run.num_samples_trn = 3
  /\ run.batch_size = 2
  /\ run.error = "AssertionError"
  /\ NothingDone

-----------------------------------------------------------------------------
(***************************************************************************)
(* dataset.Dataset.compute_stats: the statistics of the residuals          *)
(* (trajectories of shape [samples, times], axes = (0,))                   *)
(***************************************************************************)

\* _get_res = lambda s, trj: trj[:, (s):] - trj[:, :-(s)]
GetRes(s, trj) ==
  LET times == trj.shape[2]
      width == times - s
  IN  Tensor(<<trj.shape[1], width>>, [p \in 1 .. trj.shape[1] * width |->
        trj.data[((p - 1) \div width) * times + ((p - 1) % width) + s + 1]
        - trj.data[((p - 1) \div width) * times + ((p - 1) % width) + 1]])

\* np.mean(x, axis=(0,), keepdims=True), times the number of samples
MeanAxis0(x) ==
  LET width == x.shape[2]
      RECURSIVE Sum(_, _)
      Sum(i, j) == IF i = 0 THEN 0 ELSE x.data[(i - 1) * width + j] + Sum(i - 1, j)
  IN  Tensor(<<1, width>>, [j \in 1 .. width |-> Sum(x.shape[1], j)])

\* np.std(x, axis=(0,), keepdims=True): its square, times the square of the
\* number of samples
StdAxis0(x) ==
  LET width == x.shape[2]
      samples == x.shape[1]
      RECURSIVE SumSq(_, _)
      SumSq(i, j) ==
        IF i = 0 THEN 0
        ELSE x.data[(i - 1) * width + j] * x.data[(i - 1) * width + j] + SumSq(i - 1, j)
      sums == MeanAxis0(x)
  IN  Tensor(<<1, width>>, [j \in 1 .. width |->
        samples * SumSq(samples, j) - sums.data[j] * sums.data[j]])

Zeros(shape) == Tensor(shape, [p \in 1 .. Prod(shape) |-> 0])
Ones(shape) == Tensor(shape, [p \in 1 .. Prod(shape) |-> 1])

\* an entry of stats['res'][...]: the array, with the residual step it was
\* appended for and whether it was computed or is the placeholder
Placeholder(s, array) == [kind |-> "placeholder", s |-> s, array |-> array]
Computed(s, array) == [kind |-> "computed", s |-> s, array |-> array]

\* the training trajectories the statistics are taken of
Trajectories(samples, times, seed) ==
  Tensor(<<samples, times>>,
         [p \in 1 .. samples * times |-> (p * p + seed * p) % NumValues])

InitStats ==
  /\ pc = "compute_stats"
  /\ variables = <<0, 0>>
  /\ num_steps_direct = 1
  /\ unroll_steps = 0
  /\ specs = None
  /\ u_inp = None
  /\ num_jumps = 0
  /\ call_out = None
  /\ jump_out = None
  /\ noisy = <<>>
  /\ rejump = None
  /\ trajectory = None
  /\ u_lag_batch = None
  /\ u_out_batch = None
  /\ specs_batch = None
  /\ dt_batch = None
  /\ step_out = None
  /\ run = None
  /\ \E samples \in 1 .. MaxBatch, times \in 1 .. MaxStatTimes, seed \in Values,
        R \in 0 .. MaxStatTimes, S \in 1 .. MaxSkip :
       stats = [trj |-> Trajectories(samples, times, seed),
                residual_steps |-> R,
                skip_residual_steps |-> S,
                trj_mean |-> None,
                trj_std |-> None,
                s |-> 0,
                res_mean |-> <<>>,
                res_std |-> <<>>]

\* compute_stats, lines 82-104: the checks of the inputs, the statistics of
\* the solutions, the empty lists of the statistics of the residuals
BeginStats ==
  /\ pc = "compute_stats"
  /\ IF stats.residual_steps >= 0 /\ stats.residual_steps < stats.trj.shape[2]
       THEN /\ stats' = [stats EXCEPT !.trj_mean = MeanAxis0(stats.trj),
                                       !.trj_std = StdAxis0(stats.trj),
                                       !.s = 1,
                                       !.res_mean = <<>>,
                                       !.res_std = <<>>]
            /\ pc' = "residuals"
       ELSE /\ stats' = stats
            /\ pc' = "failed"
  /\ UNCHANGED <<inputVars, predictorVars, noisyVars, trainVars, step_out, run>>

\* compute_stats, lines 105-119: one turn of the loop over the residual steps
ResidualStep ==
  /\ pc = "residuals"
  /\ stats.s <= stats.residual_steps
  /\ LET s == stats.s
         times == stats.trj.shape[2]
         skipped == (s % stats.skip_residual_steps) # 0
         mean_0 == IF skipped
                     THEN Append(stats.res_mean, Placeholder(s, Zeros(<<1, times>>)))
                     ELSE stats.res_mean
         std_0 == IF skipped
                    THEN Append(stats.res_std, Placeholder(s, Ones(<<1, times>>)))
                    ELSE stats.res_std
         res == GetRes(s, stats.trj)
         res_mean == Concatenate(MeanAxis0(res), Zeros(<<1, s>>), 1)
         res_std == Concatenate(StdAxis0(res), Ones(<<1, s>>), 1)
     IN  stats' = [stats EXCEPT !.res_mean = Append(mean_0, Computed(s, res_mean)),
                                 !.res_std = Append(std_0, Computed(s, res_std)),
                                 !.s = s + 1]
  /\ pc' = "residuals"
  /\ UNCHANGED <<inputVars, predictorVars, noisyVars, trainVars, step_out, run>>

\* compute_stats, lines 121-130: the loop is over (1 is not in axes: nothing
\* is repeated along the time axis)
EndStats ==
  /\ pc = "residuals"
  /\ stats.s > stats.residual_steps
  /\ pc' = "stats_done"
  /\ UNCHANGED <<inputVars, predictorVars, noisyVars, trainVars, runVars>>

NextStats ==
  \/ BeginStats
  \/ ResidualStep
  \/ EndStats

SpecStats == InitStats /\ [][NextStats]_vars

\* what the list of a statistic holds for residual step s
ExpectedKind(s) ==
  IF s % stats.skip_residual_steps = 0 THEN "computed" ELSE "placeholder"

OnePerResidualStep(list) ==
  /\ Len(list) = stats.residual_steps
  /\ \A s \in 1 .. Len(list) :
       /\ list[s].s = s
       /\ list[s].kind = ExpectedKind(s)
       /\ list[s].array.shape = <<1, stats.trj.shape[2]>>

\* C18: after compute_stats(residual_steps = R, skip_residual_steps = S) the
\* lists stats['res']['mean'] and stats['res']['std'] hold exactly R entries,
\* the entry of residual step s at position s - 1: the computed statistics
\* when s is a multiple of S, the placeholder otherwise.
C18_OneEntryPerResidualStep ==
  pc = "stats_done" =>
    /\ OnePerResidualStep(stats.res_mean)
    /\ OnePerResidualStep(stats.res_std)

====
